---- MODULE Spec2Model ----
(***************************************************************************)
(* A model of dayafterRev5.py: the 4G/5G "day after" report script.        *)
(*                                                                         *)
(* Tables (pandas DataFrames) are sequences of row records.  Timestamps    *)
(* are whole hours counted from midnight of the first day, so that the     *)
(* hour of day of timestamp d is d % 24.  Counters (Users) and percentages *)
(* (Disp, acc) are integers; floating-point values (volumes, throughputs,  *)
(* quotients) are exact fractions [num, den] in lowest terms.  Text that   *)
(* the code upper-cases, slices or formats (group names, cell labels) is a *)
(* sequence of one-character strings.                                      *)
(***************************************************************************)
EXTENDS Integers, Sequences, FiniteSets, TLC

VARIABLES
    pc,         \* position of the run
    folder,     \* per technology: state of the input folder
    files,      \* per technology: rows of the concatenated spreadsheets
    frames,     \* per technology: the processed table (df_4g, df_5g)
    xlsx_out,   \* TRUE once dados_2204.xlsx has been written
    df,         \* ReportGenerator.df, the working dataset
    groups,     \* ReportGenerator.groups
    gi,         \* index in groups of the group being reported
    ti,         \* index of the technology being reported for that group
    si,         \* index of the next per-technology step
    pdf_open,   \* TRUE once PdfPages(output_path) has been opened
    pdf,        \* pages saved to the report, in order
    metrics,    \* SummaryMetrics returned by the last _calculate_summary_metrics
    log,        \* lines printed to the console
    raised,     \* exception that ended the run, "none" otherwise
    cell,       \* a cell identifier being labelled
    label       \* label last produced for cell, and the page it is for

vars == << pc, folder, files, frames, xlsx_out, df, groups, gi, ti, si,
           pdf_open, pdf, metrics, log, raised, cell, label >>

-----------------------------------------------------------------------------
(* Bounds of the input families *)

MaxRows == 3        \* rows in a freely chosen group subset
MaxUsers == 2       \* largest Users value of a freely chosen row
MaxVol == 2         \* largest VolumeGB value of a freely chosen row
NumCells == 6       \* cells in a many-cell group subset
MaxFileRows == 2    \* rows in one technology's input files
MaxFacetCells == 150 \* distinct cells of one group and technology
MaxIdLen == 21      \* characters in a cell identifier

-----------------------------------------------------------------------------
(* Values *)

NaN == -1           \* a missing value (NaN / None) in an integer or Cell column

nan == [num |-> 0, den |-> 0]   \* a missing value in a column of fractions

Techs == {"4G", "5G"}

TechList == << "4G", "5G" >>

\* Timestamps of the example of the specification: 09h, 20h and 09h next day.
Dates == {9, 20, 33}

\* The sum of a sequence of integers (by halves, to keep the recursion shallow).
RECURSIVE SeqSum(_)
SeqSum(s) ==
    IF s = << >> THEN 0
    ELSE IF Len(s) = 1 THEN s[1]
    ELSE LET h == Len(s) \div 2
         IN  SeqSum(SubSeq(s, 1, h)) + SeqSum(SubSeq(s, h + 1, Len(s)))

RECURSIVE GCD(_, _)
GCD(a, b) == IF b = 0 THEN a ELSE GCD(b, a % b)

Abs(x) == IF x < 0 THEN -x ELSE x

\* The exact value of a / b for integers a and b > 0, in lowest terms.
Quot(a, b) ==
    LET g == GCD(Abs(a), b)
    IN  [num |-> a \div g, den |-> b \div g]

\* The integer n as a fraction.
Whole(n) == [num |-> n, den |-> 1]

Zero == Whole(0)

\* p + q and p / q (q > 0) of two fractions
Plus(p, q) == Quot(p.num * q.den + q.num * p.den, p.den * q.den)

Over(p, q) == Quot(p.num * q.den, p.den * q.num)

\* The sum of a sequence of fractions (by halves).
RECURSIVE FracSum(_)
FracSum(s) ==
    IF s = << >> THEN Zero
    ELSE IF Len(s) = 1 THEN s[1]
    ELSE LET h == Len(s) \div 2
         IN  Plus(FracSum(SubSeq(s, 1, h)), FracSum(SubSeq(s, h + 1, Len(s))))

Min(a, b) == IF a < b THEN a ELSE b

CeilDiv(a, b) == (a + b - 1) \div b

\* Series.unique(): the distinct values in order of first appearance.
Unique(s) ==
    LET tagged == [i \in 1..Len(s) |-> << i, s[i] >>]
        firsts == SelectSeq(tagged, LAMBDA p : \A j \in 1..(p[1] - 1) : s[j] # p[2])
    IN  [k \in 1..Len(firsts) |-> firsts[k][2]]

\* df['Users'], df['VolumeGB'], df['Cell'], df['Grupo'], df['TputDLMB'],
\* df['TputULMB']: one column of a table
UsersColumn(rows) == [i \in 1..Len(rows) |-> rows[i].Users]

VolumeColumn(rows) == [i \in 1..Len(rows) |-> rows[i].VolumeGB]

CellColumn(rows) == [i \in 1..Len(rows) |-> rows[i].Cell]

GrupoColumn(rows) == [i \in 1..Len(rows) |-> rows[i].Grupo]

TputDLColumn(rows) == [i \in 1..Len(rows) |-> rows[i].TputDLMB]

TputULColumn(rows) == [i \in 1..Len(rows) |-> rows[i].TputULMB]

Digit(n) == << "0", "1", "2", "3", "4", "5", "6", "7", "8", "9" >>[n + 1]

\* A row of the working dataset: group name (text), timestamp, technology,
\* cell, Users, VolumeGB (a fraction or nan); the throughputs follow from
\* Users, the availability is 100 and the accessibility 99.
Row(g, d, t, c, u, v) ==
    [Grupo |-> g, Date |-> d, Tech |-> t, Cell |-> c, Users |-> u,
     VolumeGB |-> v, TputDLMB |-> Whole(10 * (u + 1)), TputULMB |-> Whole(u + 1),
     Disp |-> 100, acc |-> 99]

GroupA == << "A" >>

-----------------------------------------------------------------------------
(* ReportGenerator._calculate_summary_metrics *)

\* df[df['Tech'] == tech]
OfTech(rows, tech) == SelectSeq(rows, LAMBDA r : r.Tech = tech)

\* df[df['Date'] == d]
AtDate(rows, d) == SelectSeq(rows, LAMBDA r : r.Date = d)

\* df[df['Cell'] == c]
OfCell(rows, c) == SelectSeq(rows, LAMBDA r : r.Cell = c)

\* df[df['Grupo'] == g]
OfGroup(rows, g) == SelectSeq(rows, LAMBDA r : r.Grupo = g)

\* Series.sum(): missing values are skipped, and the sum of nothing is 0.
UsersSum(rows) == SeqSum(SelectSeq(UsersColumn(rows), LAMBDA u : u # NaN))

VolumeSum(rows) == FracSum(SelectSeq(VolumeColumn(rows), LAMBDA v : v # nan))

\* The set S of integers as an ascending sequence.
Ascending(S) ==
    IF S = {} THEN << >>
    ELSE LET lo == CHOOSE x \in S : \A y \in S : x <= y
             hi == CHOOSE x \in S : \A y \in S : y <= x
         IN  SelectSeq([i \in 1..(hi - lo + 1) |-> lo + i - 1], LAMBDA x : x \in S)

\* A variant that divides the 4G volume, not the 5G volume, by the total.
OffloadOf4G(vol_5g, total_volume) ==
    IF total_volume.num > 0
    THEN Over(Plus(total_volume, [vol_5g EXCEPT !.num = -vol_5g.num]),
              total_volume)
    ELSE Zero

\* vol_5g / total_volume if total_volume > 0 else 0
Offload(vol_5g, total_volume) ==
    IF total_volume.num > 0 THEN Over(vol_5g, total_volume) ELSE Zero

NA == << "N", "/", "A" >>

\* The SummaryMetrics built before the try block: volumes, offload, defaults.
DefaultMetrics(df_group) ==
    LET vol_4g == VolumeSum(OfTech(df_group, "4G"))
        vol_5g == VolumeSum(OfTech(df_group, "5G"))
        total_volume == Plus(vol_4g, vol_5g)
    IN  [vol_4g |-> vol_4g, vol_5g |-> vol_5g, total_volume |-> total_volume,
         offload |-> Offload(vol_5g, total_volume),
         peak_hour |-> NA, peak_4g |-> 0, peak_5g |-> 0, peak_total |-> 0,
         tput_metrics |-> {}, top_cells |-> << >>]

\* pivot_table(index='Date', columns='Tech', values='Users', aggfunc='sum',
\* fill_value=0): the index holds the timestamps that occur, the columns the
\* technologies that occur, and a timestamp and technology without rows hold 0.
PivotIndex(df_group) == {df_group[i].Date : i \in 1..Len(df_group)}

PivotColumns(df_group) == {df_group[i].Tech : i \in 1..Len(df_group)}

PivotValue(df_group, d, tech) == UsersSum(AtDate(OfTech(df_group, tech), d))

\* user_pivot['Total'] = user_pivot['4G'] + user_pivot['5G']
PivotTotal(df_group, d) ==
    PivotValue(df_group, d, "4G") + PivotValue(df_group, d, "5G")

\* user_pivot['4G'] and user_pivot['5G'] raise KeyError for a column the
\* pivot does not have.
PivotError(df_group) ==
    IF {"4G", "5G"} \subseteq PivotColumns(df_group) THEN "none" ELSE "KeyError"

\* A variant that takes the peak of the 4G column instead of the Total.
IdxMaxOf4G(df_group) ==
    CHOOSE d \in PivotIndex(df_group) :
        \A e \in PivotIndex(df_group) :
            \/ PivotValue(df_group, d, "4G") > PivotValue(df_group, e, "4G")
            \/ PivotValue(df_group, d, "4G") = PivotValue(df_group, e, "4G") /\ d <= e

\* user_pivot['Total'].idxmax(): the first label, in ascending order of the
\* index, that holds the maximum.
IdxMax(df_group) ==
    CHOOSE d \in PivotIndex(df_group) :
        \A e \in PivotIndex(df_group) :
            \/ PivotTotal(df_group, d) > PivotTotal(df_group, e)
            \/ PivotTotal(df_group, d) = PivotTotal(df_group, e) /\ d <= e

\* f"{peak_time.hour:02d}h"
HourLabel(d) == << Digit((d % 24) \div 10), Digit((d % 24) % 10), "h" >>

\* Series.mean() as the pair (sum, count) over the values that are not
\* missing; a count of 0 is the NaN of an empty selection.
Mean(column) ==
    LET present == SelectSeq(column, LAMBDA x : x # nan)
    IN  [sum |-> FracSum(present), n |-> Len(present)]

MeanDL(rows) == Mean(TputDLColumn(rows))

MeanUL(rows) == Mean(TputULColumn(rows))

TputMetrics(df_peak) ==
    { << "4G DL", MeanDL(OfTech(df_peak, "4G")) >>,
      << "4G UL", MeanUL(OfTech(df_peak, "4G")) >>,
      << "5G DL", MeanDL(OfTech(df_peak, "5G")) >>,
      << "5G UL", MeanUL(OfTech(df_peak, "5G")) >> }

\* df_peak.groupby('Cell')['Users'].sum(): one entry per non-null cell, in
\* ascending order of the cell.
UsersByCell(df_peak) ==
    LET cells == Ascending({df_peak[i].Cell : i \in 1..Len(df_peak)} \ {NaN})
    IN  [k \in 1..Len(cells) |->
            << cells[k], UsersSum(OfCell(df_peak, cells[k])) >>]

\* A variant that takes the first n entries (head) instead of the n largest.
NFirst(n, series) == SubSeq(series, 1, Min(n, Len(series)))

\* Series.nlargest(n): the n largest entries in descending order, equal
\* values in their order in the series.
RECURSIVE NLargest(_, _)
NLargest(n, series) ==
    IF n = 0 \/ series = << >> THEN << >>
    ELSE LET k == CHOOSE i \in 1..Len(series) :
                    /\ \A j \in 1..Len(series) : series[j][2] <= series[i][2]
                    /\ \A j \in 1..(i - 1) : series[j][2] < series[i][2]
             rest == [j \in 1..(Len(series) - 1) |->
                         IF j < k THEN series[j] ELSE series[j + 1]]
         IN  << series[k] >> \o NLargest(n - 1, rest)

TopN == 5

TopCells(df_peak) == NLargest(TopN, UsersByCell(df_peak))

\* The body of the try block, for a pivot that has both columns.
PeakMetrics(df_group, m) ==
    IF PivotIndex(df_group) = {} THEN m
    ELSE LET peak_time == IdxMax(df_group)
             df_peak == AtDate(df_group, peak_time)
         IN  [m EXCEPT !.peak_hour = HourLabel(peak_time),
                       !.peak_4g = PivotValue(df_group, peak_time, "4G"),
                       !.peak_5g = PivotValue(df_group, peak_time, "5G"),
                       !.peak_total = PivotTotal(df_group, peak_time),
                       !.tput_metrics = TputMetrics(df_peak),
                       !.top_cells = TopCells(df_peak)]

\* A variant without the try block: the KeyError leaves the call.
calculate_summary_metrics_uncaught(df_group) ==
    LET m == DefaultMetrics(df_group)
        e == PivotError(df_group)
    IN  IF e = "none"
        THEN [metrics |-> PeakMetrics(df_group, m), printed |-> << >>,
              raised |-> "none"]
        ELSE [metrics |-> m, printed |-> << >>, raised |-> e]

\* The outcome of a call: the metrics returned, the line printed by the
\* except clause, and the exception that leaves the call ("none": it returns).
calculate_summary_metrics(df_group) ==
    LET m == DefaultMetrics(df_group)
        e == PivotError(df_group)
    IN  IF e = "none"
        THEN [metrics |-> PeakMetrics(df_group, m), printed |-> << >>,
              raised |-> "none"]
        ELSE [metrics |-> m,
              printed |-> << << "Error calculating metrics", e >> >>,
              raised |-> "none"]

-----------------------------------------------------------------------------
(* Group subsets handed to _calculate_summary_metrics.  The result does    *)
(* not depend on the order of the rows (sums, a pivot with a sorted index, *)
(* a groupby with sorted keys), so that a freely chosen subset is listed   *)
(* once, with its rows in one fixed order of the row types.                *)

RECURSIVE SetToSeq(_)
SetToSeq(S) ==
    IF S = {} THEN << >>
    ELSE LET x == CHOOSE y \in S : TRUE
         IN  << x >> \o SetToSeq(S \ {x})

\* The non-decreasing sequences of exactly k indexes in 1..n.
RECURSIVE NonDecreasing(_, _)
NonDecreasing(k, n) ==
    IF k = 0 THEN {<< >>}
    ELSE UNION { {Append(s, i) : i \in (IF s = << >> THEN 1 ELSE s[Len(s)])..n} :
                 s \in NonDecreasing(k - 1, n) }

\* Every table of at most k rows taken, with repetition, from the set R.
Tables(R, k) ==
    LET list == SetToSeq(R)
    IN  UNION { {[i \in 1..Len(s) |-> list[s[i]]] : s \in NonDecreasing(j, Len(list))} :
                j \in 0..k }

\* Rows of one cell that differ in timestamp, technology and Users.
PeakRows ==
    {Row(GroupA, d, t, 1, u, Whole(1)) : d \in Dates, t \in Techs, u \in 0..MaxUsers}

\* The volumes of a freely chosen row: missing, or 0, 1/2, ... MaxVol/2 GB.
Volumes == {nan} \cup {Quot(k, 2) : k \in 0..MaxVol}

\* Rows of one timestamp that differ in technology, volume and cell (a null
\* cell included).
VolumeRows ==
    {Row(GroupA, 9, t, c, 1, v) : t \in Techs, c \in {1, NaN}, v \in Volumes}

\* What one cell reports: one row at 09h (1 or 2 users), one row at 20h, or
\* two rows at 09h.  Each entry is << timestamp, Users >>.
Profiles ==
    { << << 9, 1 >> >>, << << 9, 2 >> >>, << << 20, 2 >> >>,
      << << 9, 1 >>, << 9, 2 >> >> }

CellTech(c) == TechList[(c % 2) + 1]

RECURSIVE ProfileRows(_, _)
ProfileRows(f, c) ==
    IF c = 0 THEN << >>
    ELSE ProfileRows(f, c - 1) \o
         [i \in 1..Len(f[c]) |->
             Row(GroupA, f[c][i][1], CellTech(c), c, f[c][i][2], Whole(1))]

\* The group subset of NumCells cells in which cell c has profile f[c].
ManyCellTable(f) == ProfileRows(f, NumCells)

\* The example of the specification: the 4G Users sum to 10, 20, 5 and the
\* 5G Users to 5, 15, 25 at the three timestamps.
ExampleTable ==
    << Row(GroupA, 9, "4G", 1, 10, Whole(3)),  Row(GroupA, 9, "5G", 2, 5, Whole(1)),
       Row(GroupA, 20, "4G", 1, 12, Whole(3)), Row(GroupA, 20, "4G", 3, 8, Whole(2)),
       Row(GroupA, 20, "5G", 2, 15, Whole(2)), Row(GroupA, 33, "4G", 1, 5, Whole(1)),
       Row(GroupA, 33, "5G", 2, 20, Whole(4)), Row(GroupA, 33, "5G", 4, 5, Whole(1)) >>

NoMetrics == DefaultMetrics(<< >>)

Idle ==
    /\ folder = [t \in Techs |-> "ok"]
    /\ files = [t \in Techs |-> << >>]
    /\ frames = [t \in Techs |-> << >>]
    /\ xlsx_out = FALSE
    /\ groups = << >>
    /\ gi = 0
    /\ ti = 0
    /\ si = 0
    /\ pdf_open = FALSE
    /\ pdf = << >>
    /\ log = << >>
    /\ raised = "none"
    /\ label = << >>

\* A call of _calculate_summary_metrics on its own.
InitSummary ==
    /\ Idle
    /\ cell = << >>
    /\ pc = "calc"
    /\ \/ df \in Tables(PeakRows, MaxRows)
       \/ df \in Tables(VolumeRows, MaxRows)
       \/ \E f \in [1..NumCells -> Profiles] : df = ManyCellTable(f)
       \/ df = ExampleTable
    /\ metrics = NoMetrics

CalculateSummaryMetrics ==
    /\ pc = "calc"
    /\ LET r == calculate_summary_metrics(df)
       IN  /\ metrics' = r.metrics
           /\ log' = log \o r.printed
           /\ raised' = r.raised
           /\ pc' = IF r.raised = "none" THEN "returned" ELSE "aborted"
    /\ UNCHANGED << folder, files, frames, xlsx_out, df, groups, gi, ti, si,
                    pdf_open, pdf, cell, label >>

NextSummary == CalculateSummaryMetrics

SpecSummary == InitSummary /\ [][NextSummary]_vars

-----------------------------------------------------------------------------
(* DataProcessor *)

FolderStates == {"missing", "empty", "ok"}

\* A variant that returns an empty table instead of raising.
load_excel_files_lenient(state, rows) ==
    [raised |-> "none", rows |-> IF state = "ok" THEN rows ELSE << >>]

\* load_excel_files: the exception raised, or the concatenated rows.
load_excel_files(state, rows) ==
    IF state = "missing" THEN [raised |-> "FileNotFoundError", rows |-> << >>]
    ELSE IF state = "empty" THEN [raised |-> "ValueError", rows |-> << >>]
    ELSE [raised |-> "none", rows |-> rows]

\* The characters of Latin-1 (U+0000 to U+00FF) that str.upper() replaces by
\* one character, and that character; group names are written in Latin-1.
\* The capitals of the micro sign and of y with diaeresis lie outside
\* Latin-1 and are written by their code points, U+039C and U+0178.
LowerCase ==
    << "a", "b", "c", "d", "e", "f", "g", "h", "i", "j", "k", "l", "m",
       "n", "o", "p", "q", "r", "s", "t", "u", "v", "w", "x", "y", "z",
       "µ", "à", "á", "â", "ã", "ä", "å", "æ", "ç", "è", "é", "ê", "ë",
       "ì", "í", "î", "ï", "ð", "ñ", "ò", "ó", "ô", "õ", "ö", "ø", "ù",
       "ú", "û", "ü", "ý", "þ", "ÿ" >>

UpperCase ==
    << "A", "B", "C", "D", "E", "F", "G", "H", "I", "J", "K", "L", "M",
       "N", "O", "P", "Q", "R", "S", "T", "U", "V", "W", "X", "Y", "Z",
       "U+039C", "À", "Á", "Â", "Ã", "Ä", "Å", "Æ", "Ç", "È", "É", "Ê", "Ë",
       "Ì", "Í", "Î", "Ï", "Ð", "Ñ", "Ò", "Ó", "Ô", "Õ", "Ö", "Ø", "Ù",
       "Ú", "Û", "Ü", "Ý", "Þ", "U+0178" >>

\* str.upper() of one character, as a sequence of characters: a lower-case
\* letter becomes its capital, the sharp s becomes SS, and digits,
\* punctuation and capital letters stay.
UpperChar(c) ==
    IF c = "ß" THEN << "S", "S" >>
    ELSE IF \E i \in 1..Len(LowerCase) : LowerCase[i] = c
    THEN << UpperCase[CHOOSE i \in 1..Len(LowerCase) : LowerCase[i] = c] >>
    ELSE << c >>

\* df['Grupo'].str.upper() of one group name, a sequence of characters
RECURSIVE Upper(_)
Upper(g) ==
    IF g = << >> THEN << >>
    ELSE UpperChar(g[1]) \o Upper(SubSeq(g, 2, Len(g)))

\* df[col] / divisor of a raw integer value: the exact quotient, a missing
\* value staying missing
Scaled(x, divisor) == IF x = NaN THEN nan ELSE Quot(x, divisor)

\* process_tech_data after the load: tag, upper-case and convert one row.
Processed(r, tech) ==
    [Grupo |-> Upper(r.Grupo), Date |-> r.Date, Tech |-> tech, Cell |-> r.Cell,
     Users |-> r.Users,
     VolumeGB |-> Scaled(r.VolumeGB, 1000000),
     TputDLMB |-> Scaled(r.TputDLMB, 1000),
     TputULMB |-> Scaled(r.TputULMB, 1000),
     Disp |-> r.Disp, acc |-> r.acc]

process_tech_data(rows, tech) == [i \in 1..Len(rows) |-> Processed(rows[i], tech)]

\* A complete spreadsheet row of group g and cell c at 09h: one user,
\* 1 500 000 KB, 2 500 and 999 Kbps, no technology yet.
RawRow(g, c) ==
    [Grupo |-> g, Date |-> 9, Cell |-> c, Users |-> 1,
     VolumeGB |-> 1500000, TputDLMB |-> 2500, TputULMB |-> 999,
     Disp |-> 100, acc |-> 99]

\* DataFrame.drop_duplicates(): the first of equal rows is kept.
drop_duplicates(rows) == Unique(rows)

\* dropna(subset=['Users', 'Disp', 'TputDLMB', 'TputULMB'])
dropna(rows) ==
    SelectSeq(rows, LAMBDA r : /\ r.Users # NaN
                               /\ r.Disp # NaN
                               /\ r.TputDLMB # nan
                               /\ r.TputULMB # nan)

-----------------------------------------------------------------------------
(* ReportGenerator: the pages *)

Page(i, kind, tech, content) ==
    [gidx |-> i, group |-> groups[i], kind |-> kind, tech |-> tech,
     content |-> content]

\* range(0, n, step) from offset i on
RECURSIVE Range(_, _, _)
Range(i, n, step) == IF i >= n THEN << >> ELSE << i >> \o Range(i + step, n, step)

rows_per_page == 24

cols_per_page == 3

plots_per_page == rows_per_page * cols_per_page

\* df_group_tech['Cell'].dropna().unique()
FacetCells(df_group_tech) ==
    Unique(SelectSeq(CellColumn(df_group_tech), LAMBDA c : c # NaN))

\* A variant whose slice is one cell short.
CurrentCellsShort(cells, i) ==
    SubSeq(cells, i + 1, Min(i + plots_per_page - 1, Len(cells)))

\* cells[i:i + plots_per_page]
CurrentCells(cells, i) == SubSeq(cells, i + 1, Min(i + plots_per_page, Len(cells)))

\* range(len(current_cells), plots_per_page): the subplots switched off
BlankedSlots(current_cells) ==
    Cardinality({j \in 0..(plots_per_page - 1) : j >= Len(current_cells)})

\* The pages of one call of _create_cell_users_facet_plots: per page the
\* cells drawn, in order, and the number of subplots switched off.
FacetPages(df_group_tech) ==
    IF df_group_tech = << >> THEN << >>
    ELSE LET cells == FacetCells(df_group_tech)
             starts == Range(0, Len(cells), plots_per_page)
         IN  [k \in 1..Len(starts) |->
                 [cells |-> CurrentCells(cells, starts[k]),
                  blanked |-> BlankedSlots(CurrentCells(cells, starts[k]))]]

WorstN == 5

\* DataFrame.nsmallest(n, 'acc'): the n rows of smallest acc in ascending
\* order, equal values in their order in the table, rows without acc last.
RECURSIVE NSmallest(_, _)
NSmallest(n, rows) ==
    IF n = 0 \/ rows = << >> THEN << >>
    ELSE LET Before(a, b) == a # NaN /\ (b = NaN \/ a < b)
             k == CHOOSE i \in 1..Len(rows) :
                    \A j \in 1..Len(rows) :
                        \/ j = i
                        \/ Before(rows[i].acc, rows[j].acc)
                        \/ rows[i].acc = rows[j].acc /\ i < j
             rest == [j \in 1..(Len(rows) - 1) |->
                         IF j < k THEN rows[j] ELSE rows[j + 1]]
         IN  << rows[k] >> \o NSmallest(n - 1, rest)

\* df_group.nsmallest(5, 'acc')[['Cell', 'acc']].values.tolist()
WorstCells(df_group) ==
    LET worst == NSmallest(WorstN, df_group)
    IN  [k \in 1..Len(worst) |-> << worst[k].Cell, worst[k].acc >>]

\* The loop over worst_cells: len(cell) raises TypeError for a missing cell,
\* which is a float and not a string.
WorstCellsError(worst_cells) ==
    IF \E k \in 1..Len(worst_cells) : worst_cells[k][1] = NaN
    THEN "TypeError" ELSE "none"

\* The metrics plotted per site, and those of the boxplots.
SiteMetrics == << "VolumeGB", "TputDLMB", "TputULMB", "Users", "Disp", "acc" >>

BoxMetrics == << "TputDLMB", "TputULMB", "Users" >>

\* A variant with the per-site charts before the boxplots.
TechStepsSiteFirst == << "site", "boxplots", "facet" >>

\* The calls generate_report makes for one technology, in order.
TechSteps == << "boxplots", "site", "facet" >>

GroupTech(g, tech) == OfTech(OfGroup(df, g), tech)

-----------------------------------------------------------------------------
(* The run of the script: __main__ and ReportGenerator.generate_report *)

\* The rows of one technology's spreadsheets: complete rows of two groups,
\* 'são' and 'ß' in the 4G sheets, 'SÃO' and 'SS' in the 5G sheets, and rows
\* that lack one of the required columns; one complete 5G row has no cell.
FileRows(tech) ==
    IF tech = "4G"
    THEN { RawRow(<< "s", "ã", "o" >>, 1),
           RawRow(<< "ß" >>, 1),
           [RawRow(<< "s", "ã", "o" >>, 1) EXCEPT !.Users = NaN],
           [RawRow(<< "ß" >>, 1) EXCEPT !.Disp = NaN] }
    ELSE { RawRow(<< "S", "Ã", "O" >>, 1),
           RawRow(<< "S", "S" >>, NaN),
           [RawRow(<< "S", "Ã", "O" >>, 1) EXCEPT !.TputDLMB = NaN],
           [RawRow(<< "s", "s" >>, 1) EXCEPT !.TputULMB = NaN] }

RECURSIVE Seqs(_, _)
Seqs(S, k) ==
    IF k = 0 THEN {<< >>}
    ELSE {Append(s, x) : s \in Seqs(S, k - 1), x \in S}

\* What one technology's folder can hold: spreadsheets with at least one row
\* and at most MaxFileRows rows in all.
FileTables(tech) == UNION {Seqs(FileRows(tech), k) : k \in 1..MaxFileRows}

InitReport ==
    /\ pc = "process_4g"
    /\ folder \in [Techs -> FolderStates]
    /\ \E f4 \in FileTables("4G") \cup {<< >>}, f5 \in FileTables("5G") \cup {<< >>} :
          files = [t \in Techs |-> IF t = "4G" THEN f4 ELSE f5]
    /\ \A t \in Techs : (folder[t] = "ok") <=> (files[t] # << >>)
    /\ frames = [t \in Techs |-> << >>]
    /\ xlsx_out = FALSE
    /\ df = << >>
    /\ groups = << >>
    /\ gi = 0
    /\ ti = 0
    /\ si = 0
    /\ pdf_open = FALSE
    /\ pdf = << >>
    /\ metrics = NoMetrics
    /\ log = << >>
    /\ raised = "none"
    /\ cell = << >>
    /\ label = << >>

\* DataProcessor.process_tech_data(tech, tech_configs[tech])
ProcessTechData(tech, here, next) ==
    /\ pc = here
    /\ LET r == load_excel_files(folder[tech], files[tech])
       IN  IF r.raised # "none"
           THEN /\ raised' = r.raised
                /\ pc' = "aborted"
                /\ UNCHANGED frames
           ELSE /\ frames' = [frames EXCEPT ![tech] = process_tech_data(r.rows, tech)]
                /\ pc' = next
                /\ UNCHANGED raised
    /\ UNCHANGED << folder, files, xlsx_out, df, groups, gi, ti, si, pdf_open,
                    pdf, metrics, log, cell, label >>

Process4G == ProcessTechData("4G", "process_4g", "process_5g")

Process5G == ProcessTechData("5G", "process_5g", "to_excel")

\* df_4g.to_excel('dados_2204.xlsx', index=False)
ToExcel ==
    /\ pc = "to_excel"
    /\ xlsx_out' = TRUE
    /\ pc' = "construct"
    /\ UNCHANGED << folder, files, frames, df, groups, gi, ti, si, pdf_open,
                    pdf, metrics, log, raised, cell, label >>

\* pd.concat, drop_duplicates, and ReportGenerator.__init__ with
\* groups=list(combined_df['Grupo'].unique())
Construct ==
    /\ pc = "construct"
    /\ LET combined_df == drop_duplicates(frames["4G"] \o frames["5G"])
       IN  /\ df' = dropna(combined_df)
           /\ groups' = Unique(GrupoColumn(combined_df))
    /\ pc' = "generate"
    /\ UNCHANGED << folder, files, frames, xlsx_out, gi, ti, si, pdf_open, pdf,
                    metrics, log, raised, cell, label >>

\* generate_report: with PdfPages(self.output_path) as pdf
generate_report ==
    /\ pc = "generate"
    /\ pdf_open' = TRUE
    /\ gi' = IF groups = << >> THEN 0 ELSE 1
    /\ pc' = IF groups = << >> THEN "done" ELSE "summary"
    /\ UNCHANGED << folder, files, frames, xlsx_out, df, groups, ti, si, pdf,
                    metrics, log, raised, cell, label >>

\* _create_summary_page: the key-metrics page is saved; the worst-cells page
\* is saved after it unless one of its labels raises, which leaves
\* generate_report and its with block.
create_summary_page ==
    /\ pc = "summary"
    /\ LET df_group == OfGroup(df, groups[gi])
           r == calculate_summary_metrics(df_group)
           worst_cells == WorstCells(df_group)
           e == WorstCellsError(worst_cells)
       IN  IF r.raised # "none"
           THEN /\ raised' = r.raised
                /\ pc' = "aborted"
                /\ UNCHANGED << pdf, metrics, log >>
           ELSE /\ metrics' = r.metrics
                /\ log' = log \o r.printed
                /\ IF e # "none"
                   THEN /\ pdf' = Append(pdf, Page(gi, "summary", "", r.metrics))
                        /\ raised' = e
                        /\ pc' = "aborted"
                   ELSE /\ pdf' = pdf \o << Page(gi, "summary", "", r.metrics),
                                            Page(gi, "worst", "", worst_cells) >>
                        /\ pc' = "timeseries"
                        /\ UNCHANGED raised
    /\ UNCHANGED << folder, files, frames, xlsx_out, df, groups, gi, ti, si,
                    pdf_open, cell, label >>

\* _create_time_series_plots: one page with the 2x3 grid
create_time_series_plots ==
    /\ pc = "timeseries"
    /\ pdf' = Append(pdf, Page(gi, "timeseries", "", << >>))
    /\ pc' = "tech"
    /\ ti' = 1
    /\ si' = 1
    /\ UNCHANGED << folder, files, frames, xlsx_out, df, groups, gi, pdf_open,
                    metrics, log, raised, cell, label >>

\* The position after one per-technology call: the next call, the next
\* technology, the next group, or the end of the with block.
Advance ==
    IF si < Len(TechSteps)
    THEN /\ si' = si + 1
         /\ UNCHANGED << pc, ti, gi >>
    ELSE IF ti < Len(TechList)
    THEN /\ si' = 1
         /\ ti' = ti + 1
         /\ UNCHANGED << pc, gi >>
    ELSE IF gi < Len(groups)
    THEN /\ gi' = gi + 1
         /\ pc' = "summary"
         /\ UNCHANGED << ti, si >>
    ELSE /\ pc' = "done"
         /\ UNCHANGED << gi, ti, si >>

\* _create_boxplots: one page per boxplot metric, whatever the data
create_boxplots ==
    /\ pc = "tech"
    /\ TechSteps[si] = "boxplots"
    /\ pdf' = pdf \o [k \in 1..Len(BoxMetrics) |->
                         Page(gi, "boxplots", TechList[ti], BoxMetrics[k])]
    /\ Advance
    /\ UNCHANGED << folder, files, frames, xlsx_out, df, groups, pdf_open,
                    metrics, log, raised, cell, label >>

\* _create_site_metric_plots: one page per metric, none for an empty selection
create_site_metric_plots ==
    /\ pc = "tech"
    /\ TechSteps[si] = "site"
    /\ pdf' = IF GroupTech(groups[gi], TechList[ti]) = << >> THEN pdf
              ELSE pdf \o [k \in 1..Len(SiteMetrics) |->
                              Page(gi, "site", TechList[ti], SiteMetrics[k])]
    /\ Advance
    /\ UNCHANGED << folder, files, frames, xlsx_out, df, groups, pdf_open,
                    metrics, log, raised, cell, label >>

\* _create_cell_users_facet_plots
create_cell_users_facet_plots ==
    /\ pc = "tech"
    /\ TechSteps[si] = "facet"
    /\ LET pages == FacetPages(GroupTech(groups[gi], TechList[ti]))
       IN  pdf' = pdf \o [k \in 1..Len(pages) |->
                             Page(gi, "facet", TechList[ti], pages[k])]
    /\ Advance
    /\ UNCHANGED << folder, files, frames, xlsx_out, df, groups, pdf_open,
                    metrics, log, raised, cell, label >>

NextReport ==
    \/ Process4G
    \/ Process5G
    \/ ToExcel
    \/ Construct
    \/ generate_report
    \/ create_summary_page
    \/ create_time_series_plots
    \/ create_boxplots
    \/ create_site_metric_plots
    \/ create_cell_users_facet_plots

SpecReport == InitReport /\ [][NextReport]_vars

-----------------------------------------------------------------------------
(* generate_report of a ReportGenerator built on a table with many cells *)

\* One group's table with n distinct cells of technology 4G.  Variant 1 has
\* one row per cell, the cells descending.  Variants 2 and 3 start with a row
\* without cell, list the cells ascending at 09h and descending at 20h, and
\* end with a 5G row of one more cell; the row without cell has the best
\* accessibility in variant 2 and that of every other row in variant 3.
FacetTable(n, variant) ==
    IF variant = 1
    THEN [i \in 1..n |-> Row(GroupA, 9, "4G", n + 1 - i, 1, Whole(1))]
    ELSE << [Row(GroupA, 9, "4G", NaN, 1, Whole(1))
                EXCEPT !.acc = IF variant = 2 THEN 100 ELSE 99] >>
         \o [i \in 1..n |-> Row(GroupA, 9, "4G", i, 1, Whole(1))]
         \o [i \in 1..n |-> Row(GroupA, 20, "4G", n + 1 - i, 2, Whole(1))]
         \o << Row(GroupA, 9, "5G", n + 1, 1, Whole(1)) >>

InitFacet ==
    /\ pc = "generate"
    /\ folder = [t \in Techs |-> "ok"]
    /\ files = [t \in Techs |-> << >>]
    /\ frames = [t \in Techs |-> << >>]
    /\ xlsx_out = FALSE
    /\ \E n \in 0..MaxFacetCells, variant \in 1..3 : df = FacetTable(n, variant)
    /\ groups = << GroupA >>
    /\ gi = 0
    /\ ti = 0
    /\ si = 0
    /\ pdf_open = FALSE
    /\ pdf = << >>
    /\ metrics = NoMetrics
    /\ log = << >>
    /\ raised = "none"
    /\ cell = << >>
    /\ label = << >>

NextFacet ==
    \/ generate_report
    \/ create_summary_page
    \/ create_time_series_plots
    \/ create_boxplots
    \/ create_site_metric_plots
    \/ create_cell_users_facet_plots

SpecFacet == InitFacet /\ [][NextFacet]_vars

-----------------------------------------------------------------------------
(* The cell labels of the text pages and of the facet titles *)

Dots == << ".", ".", "." >>

\* cell[:k]
Prefix(id, k) == SubSeq(id, 1, Min(k, Len(id)))

\* Key-metrics page: cell[:15] + '...' if len(cell) > 15 else cell
TopCellLabel(id) == IF Len(id) > 15 THEN Prefix(id, 15) \o Dots ELSE id

\* A variant of the worst-cells label with a threshold of 5 characters.
WorstCellLabelShort(id) == IF Len(id) > 5 THEN Prefix(id, 5) \o Dots ELSE id

\* Worst-cells page: cell[:5] + '...' if len(cell) > 15 else cell
WorstCellLabel(id) == IF Len(id) > 15 THEN Prefix(id, 5) \o Dots ELSE id

\* Facet title: cell[:15] + ('...' if len(cell) > 15 else '')
FacetTitle(id) == Prefix(id, 15) \o (IF Len(id) > 15 THEN Dots ELSE << >>)

\* Identifiers of every length up to MaxIdLen, in two spellings.
CellIds ==
    {[i \in 1..n |-> Digit((i * k) % 10)] : n \in 0..MaxIdLen, k \in {1, 3}}

InitLabels ==
    /\ Idle
    /\ pc = "label"
    /\ df = << >>
    /\ metrics = NoMetrics
    /\ cell \in CellIds

Labelled(page, text) ==
    /\ pc = "label"
    /\ label' = [page |-> page, text |-> text]
    /\ pc' = "labelled"
    /\ UNCHANGED << folder, files, frames, xlsx_out, df, groups, gi, ti, si,
                    pdf_open, pdf, metrics, log, raised, cell >>

LabelTopCell == Labelled("top", TopCellLabel(cell))

LabelWorstCell == Labelled("worst", WorstCellLabel(cell))

LabelFacet == Labelled("facet", FacetTitle(cell))

NextLabels == LabelTopCell \/ LabelWorstCell \/ LabelFacet

SpecLabels == InitLabels /\ [][NextLabels]_vars

-----------------------------------------------------------------------------
(* Properties of _calculate_summary_metrics, stated on the rows themselves *)

RowIndexes(rows) == 1..Len(rows)

RECURSIVE UsersOver(_, _)
UsersOver(rows, I) ==
    IF I = {} THEN 0
    ELSE LET i == CHOOSE j \in I : TRUE
         IN  rows[i].Users + UsersOver(rows, I \ {i})

\* The Users of the rows of timestamp d and a technology in T, summed.
UsersAt(rows, d, T) ==
    UsersOver(rows, {i \in RowIndexes(rows) : rows[i].Date = d /\ rows[i].Tech \in T})

\* The Users of the rows of timestamp d and cell c, summed.
CellUsersAt(rows, d, c) ==
    UsersOver(rows, {i \in RowIndexes(rows) : rows[i].Date = d /\ rows[i].Cell = c})

DatesOf(rows) == {rows[i].Date : i \in RowIndexes(rows)}

CellsAt(rows, d) ==
    {rows[i].Cell : i \in {j \in RowIndexes(rows) : rows[j].Date = d}} \ {NaN}

HasBothTechs(rows) == \A t \in Techs : \E i \in RowIndexes(rows) : rows[i].Tech = t

\* d is a timestamp of the rows with the largest Users total over 4G and 5G.
IsPeakTime(rows, d) ==
    /\ d \in DatesOf(rows)
    /\ \A e \in DatesOf(rows) : UsersAt(rows, e, Techs) <= UsersAt(rows, d, Techs)

\* text is the two-digit hour of timestamp d followed by "h".
IsHourLabel(text, d) ==
    /\ Len(text) = 3
    /\ text[3] = "h"
    /\ \E a, b \in 0..9 :
          /\ text[1] = Digit(a)
          /\ text[2] = Digit(b)
          /\ 10 * a + b = d % 24

\* m holds the peak of the rows at timestamp d.
PeakFieldsAt(rows, m, d) ==
    /\ IsPeakTime(rows, d)
    /\ m.peak_4g = UsersAt(rows, d, {"4G"})
    /\ m.peak_5g = UsersAt(rows, d, {"5G"})
    /\ m.peak_total = UsersAt(rows, d, Techs)
    /\ IsHourLabel(m.peak_hour, d)

HasSentinels(m) ==
    /\ m.peak_hour = << "N", "/", "A" >>
    /\ m.peak_4g = 0
    /\ m.peak_5g = 0
    /\ m.peak_total = 0
    /\ m.tput_metrics = {}
    /\ m.top_cells = << >>

\* C1: for a group subset with rows of both technologies, the peak is a
\* timestamp whose Users summed over all 4G and 5G rows is maximal; peak_4g
\* and peak_5g are the 4G and 5G sums there, peak_total their total, and
\* peak_hour the two-digit hour of that timestamp followed by "h".
C1_PeakIsMaxTotal ==
    (pc = "returned" /\ HasBothTechs(df))
        => \E d \in DatesOf(df) : PeakFieldsAt(df, metrics, d)

\* The example of the specification: peak at T2 (20h) with 20 + 15 = 35 users.
C1_Witness ==
    /\ pc = "returned"
    /\ df = ExampleTable
    /\ metrics.peak_hour = << "2", "0", "h" >>
    /\ metrics.peak_4g = 20
    /\ metrics.peak_5g = 15
    /\ metrics.peak_total = 35

\* C2: every group subset with at least one row, one of a single technology
\* included, gets a peak (the technology without rows counting 0), and the
\* sentinel defaults are returned only for a subset without rows.
C2_PeakForEveryNonEmptyGroup ==
    pc = "returned"
        => IF df # << >>
           THEN \E d \in DatesOf(df) : PeakFieldsAt(df, metrics, d)
           ELSE HasSentinels(metrics)

\* Fractions are compared by cross-multiplication; denominators are positive.
IsNumber(q) == q.den > 0

IsZero(q) == IsNumber(q) /\ q.num = 0

\* q = a + b
IsSumOf(q, a, b) ==
    /\ IsNumber(q) /\ IsNumber(a) /\ IsNumber(b)
    /\ q.num * a.den * b.den = (a.num * b.den + b.num * a.den) * q.den

\* q = a / b, for b # 0
IsQuotient(q, a, b) ==
    /\ IsNumber(q) /\ IsNumber(a) /\ IsNumber(b)
    /\ q.num * a.den * b.num = a.num * b.den * q.den

AtMost(a, b) == a.num * b.den <= b.num * a.den

InUnitInterval(q) == IsNumber(q) /\ 0 <= q.num /\ q.num <= q.den

\* C3 as claimed: total_volume = vol_4g + vol_5g, offload = 0 exactly when
\* total_volume = 0, otherwise offload = vol_5g / total_volume, which lies in
\* [0,1] whenever vol_5g <= total_volume.
C3_OffloadZeroIffNoVolume ==
    pc = "returned"
        => /\ IsSumOf(metrics.total_volume, metrics.vol_4g, metrics.vol_5g)
           /\ IsZero(metrics.offload) <=> IsZero(metrics.total_volume)
           /\ ~IsZero(metrics.total_volume)
                 => /\ IsQuotient(metrics.offload, metrics.vol_5g, metrics.total_volume)
                    /\ AtMost(metrics.vol_5g, metrics.total_volume)
                          => InUnitInterval(metrics.offload)

\* C3 as amended: total_volume = vol_4g + vol_5g; offload = 0 when
\* total_volume = 0, otherwise offload = vol_5g / total_volume, in [0,1]
\* whenever vol_5g <= total_volume; for volumes that are not negative,
\* offload = 0 exactly when vol_5g = 0, which total_volume = 0 implies.
C3_OffloadZeroIffNo5GVolume ==
    (pc = "returned" /\ metrics.vol_4g.num >= 0 /\ metrics.vol_5g.num >= 0)
        => /\ IsSumOf(metrics.total_volume, metrics.vol_4g, metrics.vol_5g)
           /\ IsZero(metrics.total_volume) => IsZero(metrics.offload)
           /\ IsZero(metrics.offload) <=> IsZero(metrics.vol_5g)
           /\ ~IsZero(metrics.total_volume)
                 => /\ IsQuotient(metrics.offload, metrics.vol_5g, metrics.total_volume)
                    /\ AtMost(metrics.vol_5g, metrics.total_volume)
                          => InUnitInterval(metrics.offload)

\* A group with 4G volume only, 1/2 GB, beside a 5G row whose volume is
\* missing: offload is 0 although total_volume is not.
C3_Witness ==
    /\ pc = "returned"
    /\ \E i \in RowIndexes(df) : df[i].Tech = "5G" /\ df[i].VolumeGB = nan
    /\ metrics.vol_4g = Quot(1, 2)
    /\ metrics.vol_5g = Zero
    /\ metrics.total_volume = Quot(1, 2)
    /\ IsZero(metrics.offload)

\* C4: top_cells has at most 5 entries, in descending order of user count;
\* every cell in it has a row at the peak timestamp, its count is the sum of
\* Users of that cell's rows at the peak timestamp, and no cell left out has
\* a larger sum than a cell included.
C4_TopCells ==
    (pc = "returned" /\ metrics.top_cells # << >>)
        => LET top == metrics.top_cells
               in == {top[k][1] : k \in 1..Len(top)}
           IN  /\ Len(top) <= 5
               /\ \A j, k \in 1..Len(top) : j < k => top[j][2] >= top[k][2]
               /\ \A j, k \in 1..Len(top) : j # k => top[j][1] # top[k][1]
               /\ \E d \in DatesOf(df) :
                     /\ PeakFieldsAt(df, metrics, d)
                     /\ in \subseteq CellsAt(df, d)
                     /\ \A k \in 1..Len(top) : top[k][2] = CellUsersAt(df, d, top[k][1])
                     /\ \A c \in CellsAt(df, d) \ in :
                           \A k \in 1..Len(top) : CellUsersAt(df, d, c) <= top[k][2]

\* Six cells at the peak timestamp with different sums: five are kept.
C4_Witness ==
    /\ pc = "returned"
    /\ Len(metrics.top_cells) = 5
    /\ metrics.top_cells[1][2] > metrics.top_cells[5][2]
    /\ \E d \in DatesOf(df) :
          /\ PeakFieldsAt(df, metrics, d)
          /\ Cardinality(CellsAt(df, d)) > 5
          /\ \E c \in CellsAt(df, d) :
                CellUsersAt(df, d, c) < metrics.top_cells[5][2]

-----------------------------------------------------------------------------
(* Properties of the run and of the report *)

GroupIsEmpty(g) == \A i \in RowIndexes(df) : df[i].Grupo # g

\* q is the VolumeGB of the rows of group g and technology tech that have
\* one, summed; the sum is taken in units of 1/den GB.
IsVolumeOf(q, g, tech) ==
    LET rows == SelectSeq(df, LAMBDA r : /\ r.Grupo = g
                                         /\ r.Tech = tech
                                         /\ IsNumber(r.VolumeGB))
        den == 2 * 1000000
        units == [i \in 1..Len(rows) |->
                     (rows[i].VolumeGB.num * den) \div rows[i].VolumeGB.den]
    IN  /\ \A i \in 1..Len(rows) : den % rows[i].VolumeGB.den = 0
        /\ IsNumber(q)
        /\ q.num * den = SeqSum(units) * q.den

\* The pages of the report that belong to the i-th group.
PagesOf(i) == SelectSeq(pdf, LAMBDA p : p.gidx = i)

PagesOfKind(i, kind, tech) ==
    SelectSeq(pdf, LAMBDA p : p.gidx = i /\ p.kind = kind /\ p.tech = tech)

\* The summary page of the i-th group has been saved.
SummaryDone(i) ==
    \/ pc = "done"
    \/ gi > i
    \/ gi = i /\ pc \in {"timeseries", "tech"}

\* C5: a group with zero rows in the working dataset (after the drop of rows
\* with missing required columns) does not make _calculate_summary_metrics
\* raise, and gets total_volume = 0, offload = 0, peak_hour = "N/A", peak
\* counts 0 and empty tput_metrics and top_cells.
C5_EmptyGroupDefaults ==
    /\ (pc = "aborted" /\ gi > 0) => ~GroupIsEmpty(groups[gi])
    /\ \A i \in 1..Len(groups) :
          (GroupIsEmpty(groups[i]) /\ SummaryDone(i))
              => /\ Len(PagesOfKind(i, "summary", "")) = 1
                 /\ LET m == PagesOfKind(i, "summary", "")[1].content
                    IN  /\ IsZero(m.total_volume)
                        /\ IsZero(m.offload)
                        /\ HasSentinels(m)

\* A group all of whose rows were dropped has its summary page.
C5_Witness ==
    \E i \in 1..Len(groups) :
        /\ GroupIsEmpty(groups[i])
        /\ SummaryDone(i)
        /\ Len(PagesOfKind(i, "summary", "")) = 1
        /\ HasSentinels(PagesOfKind(i, "summary", "")[1].content)

\* The peak computation of the i-th group fails.
PeakFails(i) == PivotError(OfGroup(df, groups[i])) # "none"

\* Every page of the i-th group is in the report.
AllPagesOf(i) ==
    /\ Len(PagesOfKind(i, "summary", "")) = 1
    /\ Len(PagesOfKind(i, "worst", "")) = 1
    /\ Len(PagesOfKind(i, "timeseries", "")) = 1
    /\ \A t \in Techs :
          LET has == \E k \in RowIndexes(df) :
                         df[k].Grupo = groups[i] /\ df[k].Tech = t
          IN  /\ Len(PagesOfKind(i, "boxplots", t)) = 3
              /\ Len(PagesOfKind(i, "site", t)) = IF has THEN 6 ELSE 0
              /\ has <=> (Len(PagesOfKind(i, "facet", t)) > 0)

\* The call of _create_summary_page for the i-th group has saved the
\* summary page.
SummarySaved(i) == SummaryDone(i) \/ (gi = i /\ pc = "aborted")

\* C6: a failure of the peak/throughput/top-cell computation of one group is
\* caught inside _calculate_summary_metrics and never propagates: the volumes
\* and the offload computed before are kept, the group's summary page is
\* saved with the default values, and once the run has ended the other pages
\* of that group and of every later group have been produced.
C6_FailureIsContained ==
    /\ raised # "KeyError"
    /\ \A i \in 1..Len(groups) :
          (PeakFails(i) /\ SummarySaved(i))
              => /\ Len(PagesOfKind(i, "summary", "")) = 1
                 /\ LET m == PagesOfKind(i, "summary", "")[1].content
                    IN  /\ IsVolumeOf(m.vol_4g, groups[i], "4G")
                        /\ IsVolumeOf(m.vol_5g, groups[i], "5G")
                        /\ IsSumOf(m.total_volume, m.vol_4g, m.vol_5g)
                        /\ IF m.total_volume.num > 0
                           THEN IsQuotient(m.offload, m.vol_5g, m.total_volume)
                           ELSE IsZero(m.offload)
                        /\ HasSentinels(m)
                 /\ pc \in {"done", "aborted"}
                       => \A j \in i..Len(groups) : AllPagesOf(j)

\* The place of a page within its group.
PageRank(p) ==
    IF p.kind = "summary" THEN 1
    ELSE IF p.kind = "worst" THEN 2
    ELSE IF p.kind = "timeseries" THEN 3
    ELSE (IF p.tech = "4G" THEN 3 ELSE 6)
         + (IF p.kind = "boxplots" THEN 1 ELSE IF p.kind = "site" THEN 2 ELSE 3)

\* C7: the pages are appended in a fixed order: the groups in the order of
\* the group list, all pages of a group before those of the next; within a
\* group the key-metrics page, the worst-cells page, the time-series grid,
\* then for 4G and afterwards for 5G the boxplots, the per-site charts and
\* the per-cell facet pages.
C7_PageOrder ==
    /\ \A k \in 1..Len(pdf) : pdf[k].group = groups[pdf[k].gidx]
    /\ \A j, k \in 1..Len(pdf) :
          j < k => \/ pdf[j].gidx < pdf[k].gidx
                   \/ /\ pdf[j].gidx = pdf[k].gidx
                      /\ PageRank(pdf[j]) <= PageRank(pdf[k])
    /\ \A i \in 1..Len(groups) :
          SummaryDone(i) => \E k \in 1..Len(pdf) :
                               /\ pdf[k].gidx = i
                               /\ pdf[k].kind = "summary"
                               /\ \A j \in 1..(k - 1) : pdf[j].gidx < i
                               /\ pdf[k + 1].gidx = i
                               /\ pdf[k + 1].kind = "worst"

\* A finished report of two groups, the first with every kind of page for
\* both technologies.
C7_Witness ==
    /\ pc = "done"
    /\ Len(groups) = 2
    /\ \A t \in Techs :
          /\ Len(PagesOfKind(1, "site", t)) > 0
          /\ Len(PagesOfKind(1, "facet", t)) > 0
    /\ Len(PagesOf(2)) > 0

LoadError(state) == IF state = "missing" THEN "FileNotFoundError" ELSE "ValueError"

\* C10: if the input folder of either technology is missing or holds no .xlsx
\* file, the run raises during loading (FileNotFoundError for a missing
\* folder, ValueError for no files) before the report is opened: no page is
\* written and generate_report is never reached.
C10_LoadFailureAborts ==
    (\E t \in Techs : folder[t] # "ok")
        => /\ pdf_open = FALSE
           /\ pdf = << >>
           /\ pc \in {"process_4g", "process_5g", "aborted"}
           /\ folder["4G"] # "ok" => pc # "process_5g"
           /\ pc = "aborted"
                 => raised = IF folder["4G"] # "ok" THEN LoadError(folder["4G"])
                             ELSE LoadError(folder["5G"])

\* The 4G folder loads, the 5G folder holds no spreadsheet: ValueError.
C10_Witness ==
    /\ pc = "aborted"
    /\ folder["4G"] = "ok"
    /\ folder["5G"] = "empty"
    /\ frames["4G"] # << >>
    /\ raised = "ValueError"
    /\ pdf_open = FALSE
    /\ pdf = << >>

-----------------------------------------------------------------------------
(* Properties of the facet pages and of the labels *)

\* The facet call of the i-th group and technology number t has returned.
FacetDone(i, t) ==
    \/ pc = "done"
    \/ gi > i
    \/ gi = i /\ pc = "tech" /\ ti > t

\* The concatenation of the cells drawn on pages 1..k.
RECURSIVE Drawn(_, _)
Drawn(pages, k) ==
    IF k = 0 THEN << >> ELSE Drawn(pages, k - 1) \o pages[k].content.cells

\* C8: for a group and technology with n distinct non-null cells there are
\* exactly ceil(n/72) facet pages (none when n = 0); every cell is drawn
\* exactly once, page k holds cells 72(k-1)+1 .. min(72k, n) in order of
\* first appearance, every page before the last is full, and on the last
\* page exactly 72*ceil(n/72) - n subplots are blanked.
C8_FacetPagination ==
    \A i \in 1..Len(groups), t \in 1..Len(TechList) :
        FacetDone(i, t)
            => LET rows == {k \in RowIndexes(df) :
                               df[k].Grupo = groups[i] /\ df[k].Tech = TechList[t]}
                   cells == {df[k].Cell : k \in rows} \ {NaN}
                   n == Cardinality(cells)
                   first == [c \in cells |->
                               CHOOSE k \in rows :
                                   /\ df[k].Cell = c
                                   /\ \A j \in rows : df[j].Cell = c => k <= j]
                   pages == PagesOfKind(i, "facet", TechList[t])
                   drawn == Drawn(pages, Len(pages))
               IN  /\ Len(pages) = CeilDiv(n, 72)
                   /\ Len(drawn) = n
                   /\ {drawn[k] : k \in 1..Len(drawn)} = cells
                   /\ \A k \in 1..(Len(drawn) - 1) : first[drawn[k]] < first[drawn[k + 1]]
                   /\ \A k \in 1..Len(pages) :
                         /\ Len(pages[k].content.cells) = Min(72 * k, n) - 72 * (k - 1)
                         /\ k < Len(pages) => Len(pages[k].content.cells) = 72
                         /\ pages[k].content.blanked =
                               IF k < Len(pages) THEN 0 ELSE 72 * CeilDiv(n, 72) - n

\* Three pages for more than 144 cells listed out of order beside a row
\* without cell: two full pages and a last page with blanked subplots.
C8_Witness ==
    /\ pc = "done"
    /\ \E k \in RowIndexes(df) : df[k].Cell = NaN
    /\ LET pages == PagesOfKind(1, "facet", "4G")
       IN  /\ Len(pages) = 3
           /\ pages[1].content.blanked = 0
           /\ Len(pages[2].content.cells) = 72
           /\ pages[3].content.blanked = 72 - Len(pages[3].content.cells)
           /\ pages[3].content.blanked > 0

FirstChars(id, k) == [i \in 1..k |-> id[i]]

\* C9 as claimed: on the worst-cells page the threshold is 5 characters: an
\* identifier longer than 5 characters is shown as its first 5 characters
\* followed by "...", one of at most 5 characters unchanged.
C9_WorstLabelThreshold5 ==
    (pc = "labelled" /\ label.page = "worst")
        => label.text = IF Len(cell) > 5
                        THEN FirstChars(cell, 5) \o << ".", ".", "." >>
                        ELSE cell

\* C9 as amended: on the worst-cells page the threshold is 15 characters, as
\* on the top-cells page: an identifier longer than 15 characters is shown
\* as its first 5 characters followed by "..." (on the top-cells page as its
\* first 15 characters followed by "..."), one of at most 15 characters
\* unchanged.
C9_WorstLabelThreshold15 ==
    /\ (pc = "labelled" /\ label.page = "worst")
          => label.text = IF Len(cell) > 15
                          THEN FirstChars(cell, 5) \o << ".", ".", "." >>
                          ELSE cell
    /\ (pc = "labelled" /\ label.page = "top")
          => label.text = IF Len(cell) > 15
                          THEN FirstChars(cell, 15) \o << ".", ".", "." >>
                          ELSE cell

\* A 20-character identifier on the worst-cells page: 5 characters and "...".
C9_Witness ==
    /\ pc = "labelled"
    /\ label.page = "worst"
    /\ Len(cell) = 20
    /\ label.text = FirstChars(cell, 5) \o << ".", ".", "." >>

====
